---- MODULE Spec2Model ----
(***************************************************************************)
(* Model of pycord.internal.http: Route, HTTPClient.request and the gate   *)
(* set HTTPClient._blockers, under asyncio's single-threaded cooperative   *)
(* scheduling.  One action is one task step: the code that runs between    *)
(* two suspension points (await blocker.wait(), await block.block(...),    *)
(* await self._session.request(...)).                                      *)
(***************************************************************************)
EXTENDS Integers, Sequences, FiniteSets, TLC

\* ---------------------------------------------------------------- bounds
Tasks == {"t1", "t2", "t3"}
MaxRetries == 2
Max429 == 2

\* ------------------------------------------------------------- constants
None == "None"
Absent == -1
DictUsable == 5
URL == "https://discord.com/api/v10"

\* ------------------------------------------------------------------ Route
Route(path, guild_id, channel_id, webhook_id, webhook_token) ==
    [path |-> path, guild_id |-> guild_id, channel_id |-> channel_id,
     webhook_id |-> webhook_id, webhook_token |-> webhook_token]

\* str.format on one piece of the path template
FormatPiece(p, route) ==
    CASE p = "{guild_id}" -> route.guild_id
      [] p = "{channel_id}" -> route.channel_id
      [] p = "{webhook_id}" -> route.webhook_id
      [] p = "{webhook_token}" -> route.webhook_token
      [] OTHER -> p

\* Route.merge: url + self.path.format(...)
merge(route, url) ==
    <<url>> \o [i \in 1..Len(route.path) |-> FormatPiece(route.path[i], route)]

\* the routes callers pass to request(): RouteA and RouteB resolve to the same
\* literal path and share no identifier; the template of RouteAbs is that path,
\* and RouteAbs shares only an unset webhook_token with RouteMe; RouteEmojis
\* (get_guild_emojis) shares the guild identifier of RouteA
RouteMe == Route(<<"/users/@me">>, None, None, None, None)
RouteA == Route(<<"/guilds/", "{guild_id}">>, "1", "1", "1", "1")
RouteB == Route(<<"/guilds/", "1">>, "2", "2", "2", "2")
RouteAbs == Route(<<URL, "/guilds/", "1">>, "3", "3", "3", None)
RouteEmojis == Route(<<"/guilds/", "{guild_id}", "/emojis">>, "1", None, None, None)
RoutesOf(t) ==
    CASE t = "t1" -> {RouteA, RouteAbs}
      [] t = "t2" -> {RouteEmojis}
      [] OTHER -> {RouteB, RouteMe}

\* --------------------------------------------------------------- responses
Resp(status, bucket, reset_after, scope, ctype) ==
    [status |-> status, bucket |-> bucket, reset_after |-> reset_after,
     scope |-> scope, ctype |-> ctype]
NoResp == Resp(0, None, Absent, None, None)
Responses ==
    { Resp(200, None, Absent, None, "json"), Resp(204, None, Absent, None, "text") }
    \cup { Resp(s, None, Absent, None, "json") : s \in {401, 403, 404, 500} }
    \cup { Resp(429, None, Absent, None, "json") }
    \cup { Resp(429, "b1", 1, "user", "json"), Resp(429, "b1", 2, "global", "json"),
            Resp(429, "b2", 1, "global", "json"), Resp(429, "b2", 2, "user", "json") }
    \cup { Resp(429, "b1", Absent, "user", "json"), Resp(429, "b1", 1, None, "json") }

\* ------------------------------------------- the dict behind self._blockers
\* A dict keeps its entries in insertion order; del leaves a dummy entry and
\* an insertion into a full entry table rebuilds the table without dummies.
Dummy == [key |-> "<dummy>", val |-> "<dummy>"]
Live(bl) == { i \in 1..Len(bl) : bl[i] # Dummy }
Used(bl) == Cardinality(Live(bl))
Compact(bl) == SelectSeq(bl, LAMBDA e : e # Dummy)
DictGet(bl, k) ==
    IF \E i \in Live(bl) : bl[i].key = k
    THEN bl[CHOOSE i \in Live(bl) : bl[i].key = k].val
    ELSE None
DictSet(bl, k, v) ==
    IF \E i \in Live(bl) : bl[i].key = k
    THEN [i \in 1..Len(bl) |-> IF bl[i] # Dummy /\ bl[i].key = k
                               THEN [key |-> k, val |-> v] ELSE bl[i]]
    ELSE IF Len(bl) >= DictUsable
         THEN Append(Compact(bl), [key |-> k, val |-> v])
         ELSE Append(bl, [key |-> k, val |-> v])
DictDel(bl, k) ==
    [i \in 1..Len(bl) |-> IF bl[i] # Dummy /\ bl[i].key = k THEN Dummy ELSE bl[i]]

\* iterator of self._blockers.values()
NoIter == [pos |-> 0, used |-> 0, len |-> 0]
NewIter(bl) == [pos |-> 0, used |-> Used(bl), len |-> Used(bl)]
IterNext(bl, it) ==
    IF it.used # Used(bl)
    THEN [kind |-> "error", val |-> None, it |-> it]
    ELSE IF ~ \E i \in Live(bl) : i > it.pos
    THEN [kind |-> "stop", val |-> None, it |-> it]
    ELSE IF it.len = 0
    THEN [kind |-> "error", val |-> None, it |-> it]
    ELSE LET i == CHOOSE j \in Live(bl) : j > it.pos /\ \A k \in Live(bl) : k > it.pos => j <= k
         IN [kind |-> "item", val |-> bl[i].val,
             it |-> [pos |-> i, used |-> it.used, len |-> it.len - 1]]


\* ------------------------------------------------ pycord.internal.blocks.Block
\* The Block object a task constructed last.  state: "none" (no object),
\* "new" (constructed, block() not called), "armed" (block() sleeping),
\* "elapsed" (event set).  left is the part of reset_after, in time units,
\* that the sleep of block() still has to last.
NoBlock ==
    [route |-> RouteMe, bucket_denom |-> None, is_global |-> FALSE,
     state |-> "none", reset_after |-> 0, left |-> 0]
Block(route) ==
    [route |-> route, bucket_denom |-> None, is_global |-> FALSE,
     state |-> "new", reset_after |-> 0, left |-> 0]
\* Block.block up to its sleep
block(b, reset_after, bucket, globalrt) ==
    [b EXCEPT !.bucket_denom = bucket, !.is_global = globalrt, !.state = "armed",
              !.reset_after = reset_after, !.left = reset_after]
\* Block.block after its sleep: the event is set; the timing fields are not
\* read again
Elapsed(b) == [b EXCEPT !.state = "elapsed", !.reset_after = 0, !.bucket_denom = None]
\* Block.wait suspends the caller unless the event is already set
Suspends(b) == b.state # "elapsed"
\* the sleep of Block.block is over
TimerDue(b) == b.state = "armed" /\ b.left = 0
\* one time unit of the sleep passes
Sleep(b) == IF b.state = "armed" /\ b.left > 0 THEN [b EXCEPT !.left = @ - 1] ELSE b

\* utils._text_or_json
NoResult == <<"none", 0>>
text_or_json(r) == IF r.ctype = "json" THEN <<"json", r.status>> ELSE <<"text", r.status>>

\* ------------------------------------------------------------------- state
VARIABLES
    blockers,   \* HTTPClient._blockers: the entry table of the dict
    blocks,     \* blocks[t]: the Block object request call t constructed last
    tasks,      \* tasks[t]: the frame of request call t
    limited,    \* the number of 429 responses the server has sent
    cdn         \* the frame of the get_cdn_asset call

vars == <<blockers, blocks, tasks, limited, cdn>>

\* frame of a request() call.  pc: "idle" (not called), "scanwait" (suspended
\* in a blocker.wait() of the scan), "postwait" (suspended in block.wait()
\* after a 429), "blocking" (suspended in block.block()), "inflight"
\* (suspended in session.request()), "returned", "raised".
\* History of the current attempt: owed, the global gates that were in the set
\* when its scan started and on which the task has not waited; passed, the
\* global gates its scan visited without waiting.  unreadable counts the 429
\* responses without a readable bucket.
Frame(route) ==
    [pc |-> "idle", route |-> route, attempt |-> 0, sends |-> 0, it |-> NoIter,
     blk |-> None, branch |-> 0, released |-> FALSE, r |-> NoResp,
     result |-> NoResult, exc |-> None, unreadable |-> 0, owed |-> {}, passed |-> {}]

\* request() has returned value: its frame is gone, the caller holds the value
Return(s, value) == [Frame(RouteMe) EXCEPT !.pc = "returned", !.result = value, !.r = s.r]
\* request() has raised e
Raise(s, e) == [Frame(RouteMe) EXCEPT !.pc = "raised", !.exc = e, !.r = s.r]

\* the three tests of the scan, in the order of the if / elif / elif
SharesScope(b, route) ==
    \/ b.route.channel_id = route.channel_id
    \/ b.route.guild_id = route.guild_id
    \/ b.route.webhook_id = route.webhook_id
    \/ b.route.webhook_token = route.webhook_token
SamePath(b, route) == b.route.path = merge(route, URL)
\* bug: the test of the global flag is lost
IsGlobalNever(b) == FALSE
IsGlobal(b) == b.is_global
\* bug: every match is handled as the first branch, without break
BranchNoBreak(b, route) ==
    IF SharesScope(b, route) \/ SamePath(b, route) \/ IsGlobal(b) THEN 1 ELSE 0
Branch(b, route) ==
    IF SharesScope(b, route) THEN 1
    ELSE IF SamePath(b, route) THEN 2
    ELSE IF IsGlobal(b) THEN 3
    ELSE 0

\* for blocker in self._blockers.values(): ..., from iterator state it on, up
\* to the first suspension, the end of the loop or a failure of the iterator
ScanEnd(kind) == [kind |-> kind, blk |-> None, branch |-> 0, it |-> NoIter, passed |-> {}]
RECURSIVE Scan(_, _, _, _)
Scan(bl, bks, it, route) ==
    LET nx == IterNext(bl, it) IN
    IF nx.kind = "stop" THEN ScanEnd("send")
    ELSE IF nx.kind = "error" THEN ScanEnd("error")
    ELSE LET b == bks[nx.val]
             br == Branch(b, route)
         IN IF br = 0
            THEN LET rest == Scan(bl, bks, nx.it, route)
                 IN [rest EXCEPT !.passed = @ \cup (IF b.is_global THEN {nx.val} ELSE {})]
            ELSE IF Suspends(b)
            THEN [kind |-> "wait", blk |-> nx.val, branch |-> br, it |-> nx.it, passed |-> {}]
            ELSE IF br = 1 THEN Scan(bl, bks, nx.it, route)
            ELSE ScanEnd("send")

\* the frame after the scan stopped with outcome res
AfterScan(s, res) ==
    CASE res.kind = "wait" ->
           [s EXCEPT !.pc = "scanwait", !.blk = res.blk, !.branch = res.branch,
                     !.it = res.it, !.released = FALSE,
                     !.owed = @ \ {res.blk}, !.passed = @ \cup res.passed]
      [] res.kind = "send" ->
           [s EXCEPT !.pc = "inflight", !.sends = @ + 1, !.blk = None,
                     !.branch = 0, !.it = NoIter, !.released = FALSE,
                     !.passed = @ \cup res.passed]
      [] OTHER ->
           Raise(s, "RuntimeError")

\* the owners of the gates of the set that are flagged global
GlobalGates(bl, bks) == { bl[i].val : i \in { j \in Live(bl) : bks[bl[j].val].is_global } }

\* for _ in range(self.max_retries): the next iteration, or the end of the loop
\* bug: the next iteration sends without scanning the set
ContinueNoScan(s, bl, bks) ==
    IF s.attempt >= MaxRetries
    THEN Return([s EXCEPT !.r = NoResp], NoResult)
    ELSE AfterScan([s EXCEPT !.attempt = @ + 1, !.r = NoResp,
                             !.owed = GlobalGates(bl, bks), !.passed = {}],
                   ScanEnd("send"))
Continue(s, bl, bks) ==
    IF s.attempt >= MaxRetries
    THEN Return([s EXCEPT !.r = NoResp], NoResult)
    ELSE AfterScan([s EXCEPT !.attempt = @ + 1, !.r = NoResp,
                             !.owed = GlobalGates(bl, bks), !.passed = {}],
                   Scan(bl, bks, NewIter(bl), s.route))


\* bug: a missing bucket header read as a default bucket
ReadBucketDefault(r) == IF r.bucket = None THEN "b1" ELSE r.bucket
\* r.headers['X-RateLimit-Bucket'], None when the lookup raises
ReadBucket(r) == r.bucket

\* bug: waiting on an existing gate does not use up an attempt
WaitExistingFree(s, owner, bl, bks) ==
    IF Suspends(bks[owner])
    THEN [s EXCEPT !.pc = "postwait", !.blk = owner, !.released = FALSE, !.attempt = @ - 1]
    ELSE Continue(s, bl, bks)
\* block = self._blockers.get(bucket); if block: await block.wait(); continue
WaitExisting(s, owner, bl, bks) ==
    IF Suspends(bks[owner])
    THEN [s EXCEPT !.pc = "postwait", !.blk = owner, !.released = FALSE]
    ELSE Continue(s, bl, bks)

\* float(r.headers['X-RateLimit-Reset-After']) and
\* r.headers['X-RateLimit-Scope'] == 'global' can both be evaluated
HeadersReadable(r) == r.reset_after # Absent /\ r.scope # None
\* bug: the gate is armed without the duration of the response
ResetAfterZero(r) == 0
ResetAfter(r) == r.reset_after
GlobalRt(r) == r.scope = "global"

\* self._blockers[bucket] = block
InstallGate(bl, bucket, t) == DictSet(bl, bucket, t)
\* bug: the gate is not deleted when its timer fires
RemoveGateLazy(bl, bucket) == bl
\* del self._blockers[bucket]
RemoveGate(bl, bucket) == DictDel(bl, bucket)

\* bug: the lookup of the existing gate always misses
ExistingNever(bl, bucket) == None
\* block = self._blockers.get(bucket), None when there is no such gate
Existing(bl, bucket) == DictGet(bl, bucket)

\* the branch  if r.status == 429  of task t, up to its first suspension
On429(s, t, bl, bks) ==
    LET bucket == ReadBucket(s.r) IN
    IF bucket = None
    THEN [frame |-> Continue([s EXCEPT !.unreadable = @ + 1], bl, bks),
          blockers |-> bl, block |-> bks[t]]
    ELSE IF Existing(bl, bucket) # None
    THEN [frame |-> WaitExisting(s, Existing(bl, bucket), bl, bks),
          blockers |-> bl, block |-> bks[t]]
    ELSE IF ~ HeadersReadable(s.r)
    THEN [frame |-> Raise(s, "KeyError"),
          blockers |-> InstallGate(bl, bucket, t), block |-> Block(s.route)]
    ELSE [frame |-> [s EXCEPT !.pc = "blocking", !.blk = t, !.released = FALSE],
          blockers |-> InstallGate(bl, bucket, t),
          block |-> block(Block(s.route), ResetAfter(s.r), bucket, GlobalRt(s.r))]

\* bug: every status but 200 is an error
IsErrorStrict(status) == status > 200
\* if r.status >= 400
IsError(status) == status >= 400
\* bug: 403 and 404 are not told apart from the other failures
FailureGeneric(status) == IF status = 401 THEN "Unauthorized" ELSE "HTTPException"
\* the exception raised for an error status
Failure(status) ==
    CASE status = 401 -> "Unauthorized"
      [] status = 403 -> "Forbidden"
      [] status = 404 -> "NotFound"
      [] OTHER -> "HTTPException"

\* the code after  r = await self._session.request(...)
OnResponse(s, t, bl, bks) ==
    IF s.r.status = 429 THEN On429(s, t, bl, bks)
    ELSE IF IsError(s.r.status)
    THEN [frame |-> Raise(s, Failure(s.r.status)),
          blockers |-> bl, block |-> bks[t]]
    ELSE [frame |-> Return(s, text_or_json(s.r)),
          blockers |-> bl, block |-> bks[t]]

\* ------------------------------------------------------------ get_cdn_asset
\* frame of the get_cdn_asset call: pc "idle", "inflight" (suspended in
\* self._session.get(url)), "returned", "raised"
CdnStatuses == {200, 204, 403, 404, 500}
CdnFrame == [pc |-> "idle", status |-> 0, result |-> None, exc |-> None]
\* match response.status: case 200 / case 403 / case 404 / case _
CdnOutcome(status) ==
    CASE status = 200 -> [CdnFrame EXCEPT !.pc = "returned", !.status = status, !.result = "bytes"]
      [] status = 403 -> [CdnFrame EXCEPT !.pc = "raised", !.status = status, !.exc = "Forbidden"]
      [] status = 404 -> [CdnFrame EXCEPT !.pc = "raised", !.status = status, !.exc = "NotFound"]
      [] OTHER -> [CdnFrame EXCEPT !.pc = "raised", !.status = status, !.exc = "HTTPException"]

\* the event of the Block of owner o is set: every frame suspended in its
\* wait() becomes runnable
Release(s, o) ==
    IF s.pc \in {"scanwait", "postwait"} /\ s.blk = o /\ ~ s.released
    THEN [s EXCEPT !.released = TRUE] ELSE s

\* the Block of owner o is alive while the dict or a frame refers to it
Referenced(o, bl, frames) ==
    \/ \E i \in Live(bl) : bl[i].val = o
    \/ \E u \in Tasks : frames[u].blk = o

\* ----------------------------------------------------------------- actions
Init ==
    /\ blockers = <<>>
    /\ blocks = [t \in Tasks |-> NoBlock]
    /\ tasks = [t \in Tasks |-> Frame(RouteMe)]
    /\ limited = 0
    /\ cdn = CdnFrame

\* request(method, route) is called and runs to its first suspension
Call(t) ==
    /\ tasks[t].pc = "idle"
    /\ \E route \in RoutesOf(t) :
         tasks' = [tasks EXCEPT ![t] = Continue(Frame(route), blockers, blocks)]
    /\ UNCHANGED <<blockers, blocks, limited, cdn>>

\* the network call of task t completes with response resp and the task
\* runs to its next suspension
Deliver(t, resp) ==
    /\ tasks[t].pc = "inflight"
    /\ resp.status = 429 => limited < Max429
    /\ limited' = IF resp.status = 429 THEN limited + 1 ELSE limited
    /\ LET o == OnResponse([tasks[t] EXCEPT !.r = resp], t, blockers, blocks)
       IN /\ tasks' = [tasks EXCEPT ![t] = o.frame]
          /\ blockers' = o.blockers
          /\ blocks' = [blocks EXCEPT ![t] = o.block]
    /\ UNCHANGED cdn

Respond(t) == \E resp \in Responses : Deliver(t, resp)

\* bug: the installer goes on and the waiters of the gate stay suspended
ElapseAlone(o) ==
    /\ tasks[o].pc = "blocking"
    /\ TimerDue(blocks[o])
    /\ LET bl == RemoveGate(blockers, ReadBucket(tasks[o].r))
           bks == [blocks EXCEPT ![o] =
                     IF Referenced(o, bl, [tasks EXCEPT ![o].blk = None])
                     THEN Elapsed(@) ELSE NoBlock]
       IN /\ blockers' = bl
          /\ blocks' = bks
          /\ tasks' = [u \in Tasks |->
                         IF u = o THEN Continue([tasks[o] EXCEPT !.blk = None], bl, bks)
                         ELSE tasks[u]]
    /\ UNCHANGED <<limited, cdn>>

\* the sleep of block.block() of task o is over: the event is set, block()
\* returns, the gate is deleted and o goes on with its loop
Elapse(o) ==
    /\ tasks[o].pc = "blocking"
    /\ TimerDue(blocks[o])
    /\ LET bl == RemoveGate(blockers, ReadBucket(tasks[o].r))
           bks == [blocks EXCEPT ![o] =
                     IF Referenced(o, bl, [tasks EXCEPT ![o].blk = None])
                     THEN Elapsed(@) ELSE NoBlock]
       IN /\ blockers' = bl
          /\ blocks' = bks
          /\ tasks' = [u \in Tasks |->
                         IF u = o THEN Continue([tasks[o] EXCEPT !.blk = None], bl, bks)
                         ELSE Release(tasks[u], o)]
    /\ UNCHANGED <<limited, cdn>>

\* a task released from a wait() runs on from it
Resume(t) ==
    /\ tasks[t].released
    /\ tasks' = [tasks EXCEPT ![t] =
                   IF tasks[t].pc = "postwait" THEN Continue(tasks[t], blockers, blocks)
                   ELSE IF tasks[t].branch = 1
                   THEN AfterScan(tasks[t], Scan(blockers, blocks, tasks[t].it, tasks[t].route))
                   ELSE AfterScan(tasks[t], ScanEnd("send"))]
    /\ blocks' = [o \in Tasks |->
                    IF blocks[o].state = "elapsed" /\ ~ Referenced(o, blockers, tasks')
                    THEN NoBlock ELSE blocks[o]]
    /\ UNCHANGED <<blockers, limited, cdn>>

\* one time unit passes while a block() is sleeping
Tick ==
    /\ \E o \in Tasks : blocks[o].state = "armed" /\ blocks[o].left > 0
    /\ blocks' = [o \in Tasks |-> Sleep(blocks[o])]
    /\ UNCHANGED <<blockers, tasks, limited, cdn>>

\* get_cdn_asset(url) is called and suspends in self._session.get(url)
CdnCall ==
    /\ cdn.pc = "idle"
    /\ cdn' = [cdn EXCEPT !.pc = "inflight"]
    /\ UNCHANGED <<blockers, blocks, tasks, limited>>

\* the GET of get_cdn_asset completes with status
CdnDeliver(status) ==
    /\ cdn.pc = "inflight"
    /\ cdn' = CdnOutcome(status)
    /\ UNCHANGED <<blockers, blocks, tasks, limited>>

CdnRespond == \E status \in CdnStatuses : CdnDeliver(status)

Next ==
    \/ \E t \in Tasks : Call(t)
    \/ \E t \in Tasks : Respond(t)
    \/ \E t \in Tasks : Elapse(t)
    \/ \E t \in Tasks : Resume(t)
    \/ Tick

Spec == Init /\ [][Next]_vars

\* the event loop runs every runnable task and fires every timer that is
\* due, and every send receives a response
FairSpec ==
    /\ Spec
    /\ WF_vars(Tick)
    /\ \A t \in Tasks :
         WF_vars(Respond(t)) /\ WF_vars(Elapse(t)) /\ WF_vars(Resume(t))

\* two request() calls and one get_cdn_asset call
CdnTasks == {"t1", "t2"}
NextCdn ==
    \/ \E t \in CdnTasks : Call(t)
    \/ \E t \in CdnTasks : Respond(t)
    \/ \E t \in CdnTasks : Elapse(t)
    \/ \E t \in CdnTasks : Resume(t)
    \/ Tick
    \/ CdnCall
    \/ CdnRespond

SpecCdn == Init /\ [][NextCdn]_vars

TypeOK ==
    /\ limited \in 0..Max429
    /\ \A t \in Tasks : tasks[t].pc \in
         {"idle", "scanwait", "postwait", "blocking", "inflight", "returned", "raised"}
    /\ cdn.pc \in {"idle", "inflight", "returned", "raised"}


\* ------------------------------------------------------------------ claims
Terminal == {"returned", "raised"}
Suspended == {"scanwait", "postwait", "blocking"}
GateOwners == { blockers[i].val : i \in Live(blockers) }
Absorbing == \A t \in Tasks : tasks[t].pc \in Terminal => tasks'[t] = tasks[t]

\* C1: the active set never holds two gates for one bucket identifier, and a
\* request whose 429 response names a bucket that has a gate in the set waits
\* on that gate and leaves the set and the gate as they are.
C1_OneGatePerBucket ==
    [][ /\ \A i, j \in Live(blockers') : blockers'[i].key = blockers'[j].key => i = j
        /\ \A t \in Tasks : \A resp \in Responses :
             ( /\ tasks[t].pc = "inflight"
               /\ resp.status = 429 /\ resp.bucket # None
               /\ DictGet(blockers, resp.bucket) # None
               /\ Deliver(t, resp) )
             => /\ blockers' = blockers
                /\ blocks' = blocks
                /\ tasks'[t].pc = "postwait"
                /\ tasks'[t].blk = DictGet(blockers, resp.bucket) ]_vars
\* a request waits after its 429 on the gate another request installed
C1_Witness ==
    \E t \in Tasks :
        /\ tasks[t].pc = "postwait" /\ ~ tasks[t].released
        /\ tasks[t].blk # t
        /\ DictGet(blockers, tasks[t].r.bucket) = tasks[t].blk

\* C2: a response with status >= 400 other than 429 ends the call at once with
\* the failure its status selects, and a call that has ended makes no send.
C2_HardFailure ==
    [][ /\ \A t \in Tasks : \A resp \in Responses :
             ( /\ tasks[t].pc = "inflight"
               /\ resp.status >= 400 /\ resp.status # 429
               /\ Deliver(t, resp) )
             => /\ tasks'[t].pc = "raised"
                /\ tasks'[t].exc = CASE resp.status = 401 -> "Unauthorized"
                                     [] resp.status = 403 -> "Forbidden"
                                     [] resp.status = 404 -> "NotFound"
                                     [] OTHER -> "HTTPException"
        /\ Absorbing ]_vars
\* a call has ended with Forbidden and another with the generic failure
C2_Witness ==
    \E t, u \in Tasks :
        /\ tasks[t].pc = "raised" /\ tasks[t].exc = "Forbidden" /\ tasks[t].r.status = 403
        /\ tasks[u].pc = "raised" /\ tasks[u].exc = "HTTPException" /\ tasks[u].r.status = 500

\* C3: request() raises only for a status >= 400 other than 429: a 429 response
\* never surfaces to the caller as a failure.
C3_Only4xxRaises ==
    \A t \in Tasks :
        tasks[t].pc = "raised"
        => /\ tasks[t].exc \in {"Unauthorized", "Forbidden", "NotFound", "HTTPException"}
           /\ tasks[t].r.status >= 400 /\ tasks[t].r.status # 429

\* C4: a gate is armed with the reset-after duration of its 429 response as
\* the time its sleep has to last, and a request suspended on the gate stays
\* suspended until that many time units have passed since the arming; in the
\* step that releases it the gate leaves the active set.
C4_GateDelays ==
    [][ \A t \in Tasks :
          /\ (tasks[t].pc = "inflight" /\ tasks'[t].pc = "blocking")
             => /\ blocks'[t].state = "armed"
                /\ blocks'[t].reset_after = tasks'[t].r.reset_after
                /\ blocks'[t].left = tasks'[t].r.reset_after
          /\ ( /\ tasks[t].pc \in Suspended /\ ~ tasks[t].released
               /\ tasks'[t] # tasks[t] )
             => /\ blocks[tasks[t].blk].state = "armed"
                /\ blocks[tasks[t].blk].left = 0
                /\ \A i \in Live(blockers') : blockers'[i].val # tasks[t].blk
          /\ (blocks[t].state = "armed" /\ blocks'[t].state = "armed")
             => blocks'[t].left \in {blocks[t].left, blocks[t].left - 1} ]_vars
\* a request that waited in its scan on the only gate there has been is
\* released, the time of the gate has passed and the gate is gone
C4_Witness ==
    \E t \in Tasks :
        /\ tasks[t].pc = "scanwait" /\ tasks[t].released
        /\ limited = 1
        /\ blockers # <<>> /\ Live(blockers) = {}

\* C5: a call makes at most max_retries sends, one for each attempt.
C5_BoundedSends ==
    \A t \in Tasks :
        /\ tasks[t].sends <= MaxRetries
        /\ tasks[t].attempt <= MaxRetries
        /\ tasks[t].pc = "inflight" => tasks[t].sends = tasks[t].attempt
        /\ tasks[t].pc \in Suspended => tasks[t].sends \in {tasks[t].attempt, tasks[t].attempt - 1}
\* a call is in its last send after a 429 that it handled by waiting on a gate
C5_Witness ==
    \E t \in Tasks :
        /\ tasks[t].pc = "inflight" /\ tasks[t].sends = MaxRetries
        /\ tasks[t].unreadable = 0

\* C6: a call whose every attempt received a 429 without a readable bucket
\* does not end by returning an empty result.
C6_NoEmptySuccess ==
    [][ \A t \in Tasks :
          ( /\ tasks[t].pc = "inflight"
            /\ tasks[t].attempt = MaxRetries
            /\ tasks[t].unreadable = MaxRetries - 1
            /\ Deliver(t, Resp(429, None, Absent, None, "json")) )
          => ~ (tasks'[t].pc = "returned" /\ tasks'[t].result = NoResult) ]_vars

\* C7: a 429 response without a readable bucket uses up one attempt, leaves
\* the active set and the gates unchanged, and the request waits on no gate
\* for it.
C7_UnreadableBucket ==
    [][ \A t \in Tasks : \A resp \in Responses :
          ( /\ tasks[t].pc = "inflight"
            /\ resp.status = 429 /\ resp.bucket = None
            /\ Deliver(t, resp) )
          => /\ blockers' = blockers
             /\ blocks' = blocks
             /\ tasks'[t].pc \notin {"postwait", "blocking", "raised"}
             /\ IF tasks[t].attempt = MaxRetries
                THEN tasks'[t].pc = "returned"
                ELSE /\ tasks'[t].attempt = tasks[t].attempt + 1
                     /\ tasks'[t].pc \in {"inflight", "scanwait"} ]_vars
\* a call is in a further send after such a response, with no gate made
C7_Witness ==
    \E t \in Tasks :
        /\ tasks[t].pc = "inflight" /\ tasks[t].unreadable = 1 /\ tasks[t].attempt = 2
        /\ blockers = <<>>

\* C8: a response with status below 400 ends the call with the decoded
\* payload, leaves the active set and the gates unchanged, and a call that has
\* returned returns or sends no more.
C8_Success ==
    [][ /\ \A t \in Tasks : \A resp \in Responses :
             ( /\ tasks[t].pc = "inflight"
               /\ resp.status < 400
               /\ Deliver(t, resp) )
             => /\ tasks'[t].pc = "returned"
                /\ tasks'[t].result = <<resp.ctype, resp.status>>
                /\ blockers' = blockers
                /\ blocks' = blocks
        /\ \A t \in Tasks : tasks[t].pc = "returned" => tasks'[t] = tasks[t] ]_vars
\* a call has returned the payload of a 204 while a gate is active
C8_Witness ==
    \E t \in Tasks :
        /\ tasks[t].pc = "returned" /\ tasks[t].result = <<"text", 204>>
        /\ Live(blockers) # {}

\* C9: no gate of the active set has its event set: the gate leaves the set
\* in the step in which its timer fires.
C9_NoElapsedGate ==
    \A i \in Live(blockers) : blocks[blockers[i].val].state # "elapsed"
\* a timer has fired: its waiter is released, the installer is running again
\* and its gate is not in the set
C9_Witness ==
    \E t, o \in Tasks :
        /\ tasks[t].released /\ tasks[t].blk = o /\ t # o
        /\ tasks[o].pc = "inflight" /\ tasks[o].attempt = 2
        /\ o \notin GateOwners

\* C10 as stated: a request that starts its scan while a global gate is in the
\* active set has waited on that gate when it sends.
C10_WaitsOnEveryGlobal ==
    \A t \in Tasks : tasks[t].pc = "inflight" => tasks[t].owed = {}
\* C10 as amended: the scan of a request of any route never goes past a global
\* gate it visits without waiting on it (it may stop before it reaches the
\* gate).
C10_GlobalMatchesEveryRoute ==
    \A t \in Tasks : tasks[t].passed = {}
\* a request that shares no identifier and no path with a global gate waits on
\* it in its scan
C10_Witness ==
    \E t \in Tasks :
        /\ tasks[t].pc = "scanwait" /\ tasks[t].branch = 3
        /\ blocks[tasks[t].blk].is_global
        /\ ~ SharesScope(blocks[tasks[t].blk], tasks[t].route)


\* C11: get_cdn_asset never waits on a gate and never changes the active set,
\* even while a global gate is active; it returns the raw bytes for every
\* status below 400 and raises Forbidden for 403, NotFound for 404 and
\* HTTPException for every other status >= 400.
C11_CdnAsset ==
    [][ /\ (cdn.pc = "idle" /\ cdn'.pc # "idle")
           => cdn'.pc = "inflight" /\ UNCHANGED <<blockers, blocks, tasks>>
        /\ \A status \in CdnStatuses :
             (cdn.pc = "inflight" /\ CdnDeliver(status))
             => /\ UNCHANGED <<blockers, blocks, tasks>>
                /\ IF status < 400
                   THEN cdn'.pc = "returned" /\ cdn'.result = "bytes"
                   ELSE /\ cdn'.pc = "raised"
                        /\ cdn'.exc = CASE status = 403 -> "Forbidden"
                                        [] status = 404 -> "NotFound"
                                        [] OTHER -> "HTTPException" ]_vars


\* the route shares a set (not None) identifier with the route of gate b
SharesSetScope(b, route) ==
    \/ route.channel_id # None /\ b.route.channel_id = route.channel_id
    \/ route.guild_id # None /\ b.route.guild_id = route.guild_id
    \/ route.webhook_id # None /\ b.route.webhook_id = route.webhook_id
    \/ route.webhook_token # None /\ b.route.webhook_token = route.webhook_token

\* C12: a request that waited in the pre-flight scan on a gate that shares a
\* channel, guild or webhook identifier with its route (a gate neither global
\* nor of the same path) continues the scan over the remaining gates after
\* the wait: it either waits on a further gate that matches its route or
\* proceeds to send.
C12_ScopeWaitContinues ==
    [][ \A t \in Tasks :
          ( /\ tasks[t].pc = "scanwait" /\ tasks[t].branch = 1
            /\ SharesSetScope(blocks[tasks[t].blk], tasks[t].route)
            /\ ~ blocks[tasks[t].blk].is_global
            /\ Resume(t) )
          => \/ tasks'[t].pc = "inflight"
             \/ /\ tasks'[t].pc = "scanwait"
                /\ Branch(blocks[tasks'[t].blk], tasks[t].route) # 0 ]_vars


C14_SameLiteralPathWaits ==
    [][ \A t \in Tasks : \A o \in GateOwners :
          ( /\ Call(t)
            /\ blocks[o].state = "armed" /\ ~ blocks[o].is_global
            /\ merge(blocks[o].route, URL) = merge(tasks'[t].route, URL)
            /\ ~ SharesScope(blocks[o], tasks'[t].route) )
          => tasks'[t].pc = "scanwait" ]_vars


\* C15: a request waits in the pre-flight scan on a non-global gate only if
\* its route shares a set (not None) channel, guild or webhook identifier or
\* token with the gate's route, or resolves to the same literal path.
C15_WaitsOnlyOnMatch ==
    \A t \in Tasks :
      (tasks[t].pc = "scanwait" /\ ~ blocks[tasks[t].blk].is_global)
      => \/ SharesSetScope(blocks[tasks[t].blk], tasks[t].route)
         \/ merge(blocks[tasks[t].blk].route, URL) = merge(tasks[t].route, URL)


\* the positions of dict bl whose gate the scan would match with the route
\* and wait on
Matching(bl, bks, route) ==
    { i \in Live(bl) : Branch(bks[bl[i].val], route) # 0 /\ Suspends(bks[bl[i].val]) }
First(S) == CHOOSE i \in S : \A j \in S : i <= j

C17_ReleasedTogether ==
    [][ \A o \in Tasks :
          Elapse(o)
          => /\ tasks'[o].pc # "blocking"
             /\ \A u \in Tasks \ {o} :
                  (tasks[u].pc \in {"scanwait", "postwait"} /\ tasks[u].blk = o)
                  => tasks'[u].released /\ tasks'[u].blk = o ]_vars

\* two requests released by the same elapse, one of them from the wait after
\* a 429
C17_Witness ==
    \E o \in Tasks : \E u \in Tasks \ {o} : \E v \in Tasks \ {o, u} :
      /\ blocks[o].state = "elapsed"
      /\ tasks[u].pc = "postwait" /\ tasks[u].blk = o /\ tasks[u].released
      /\ tasks[v].pc = "scanwait" /\ tasks[v].blk = o /\ tasks[v].released


\* C18: if every send receives a response and every armed timer fires, every
\* gate inserted into the set is eventually removed from it and every call of
\* request() eventually ends; no request stays blocked for ever.
C18_Progress ==
    /\ \A t \in Tasks : (tasks[t].pc # "idle") ~> (tasks[t].pc \in Terminal)
    /\ \A o \in Tasks : (o \in GateOwners) ~> (o \notin GateOwners)


\* C19: a request suspended in the pre-flight scan completes the scan when it
\* resumes, also when another request inserted or removed a gate in the
\* meantime: resuming the scan never fails because the set changed size.
C19_ScanSurvivesChange ==
    [][ \A t \in Tasks :
          (tasks[t].pc = "scanwait" /\ Resume(t))
          => tasks'[t].pc \in {"scanwait", "inflight"} ]_vars

\* C20: every gate of the active set is armed: the step that inserts a gate
\* starts its timer, also when the Reset-After or the Scope header of the
\* response is missing, so that no gate stays in the set unarmed.
C20_EveryGateArmed ==
    \A o \in GateOwners : blocks[o].state = "armed"

====
